---- MODULE Spec2Model ----
(***************************************************************************)
(* A model of the Kabo turn engine of src/src/game.rs: PreGame (deal and   *)
(* peek allowances) and Game (deck, discard pile, hands, turn cursor,      *)
(* pending Kabo, held card).  Player and card indices are 0-based as in    *)
(* the source; sequences are 1-based, so slot i of a Vec is element i+1.   *)
(* An Option<T> is a sequence of length 0 (None) or 1 (Some).              *)
(***************************************************************************)
EXTENDS Integers, Sequences, FiniteSets, TLC

\* ---------------------------------------------------------------- bounds
\* Games are explored for 1..MaxPlayers players.
MaxPlayers == 2
\* Only deals that leave at most MaxDeck cards in the deck are explored, so
\* that the deck runs out within MaxSteps operations.
MaxDeck == 3
\* Number of successful Game operations explored.
MaxSteps == 7
\* The rng of Card::full_deck is explored for the seeds 0..MaxSeed.
MaxSeed == 1

\* ------------------------------------------------------------- constants
DECK_SIZE == 52

\* Option<T>
None == <<>>
Some(x) == <<x>>

\* ----------------------------------------------------------------- state
VARIABLES
    stage,             \* "PreGame", "Game", or "Aborted" after a panic
    deck,              \* Vec<Card>, top of the stack is the last element
    discard_pile,      \* Vec<Card>, top of the stack is the last element
    players,           \* players[p+1] is the hand (cards) of player p
    peeks_left,        \* PreGame: peeks_left[p+1] is the u8 of the tuple
    total_peeks_left,  \* PreGame
    current_player,    \* Game
    kabo,              \* Game: Option<u8>
    hand_card,         \* Game: Option<Card>
    result,            \* what the last call returned
    args,              \* the arguments the last call read before it returned
    log,               \* every GameEvent returned so far, in order
    steps              \* successful Game operations so far

cards == <<deck, discard_pile, players>>
gameState == <<deck, discard_pile, players, current_player, kabo, hand_card>>
preGameState == <<deck, discard_pile, players, peeks_left, total_peeks_left>>
vars == <<stage, deck, discard_pile, players, peeks_left, total_peeks_left,
          current_player, kabo, hand_card, result, args, log, steps>>

\* ------------------------------------------------------------- sequences
Last(s) == s[Len(s)]
Front(s) == SubSeq(s, 1, Len(s) - 1)

RECURSIVE Repeat(_, _)
Repeat(x, n) == IF n = 0 THEN <<>> ELSE Append(Repeat(x, n - 1), x)

RECURSIVE SumLen(_)
SumLen(ss) == IF ss = <<>> THEN 0 ELSE Len(Last(ss)) + SumLen(Front(ss))

\* ------------------------------------------------------------- Card
Ranks == 0..13

\* the cards in the order Card::full_deck pushes them, before the shuffle
RECURSIVE RankRun(_)
RankRun(i) == IF i = 0 THEN <<>> ELSE RankRun(i - 1) \o Repeat(i, 4)
SortedDeck == <<0, 0>> \o RankRun(12) \o <<13, 13>>

\* thread_rng().shuffle of a whole deck: one order per explored seed (the
\* cards taken with a stride coprime to 52 that the seed selects)
SeededShuffle(s, seed) ==
    [i \in 1..Len(s) |-> s[(((i - 1) * (15 + 2 * seed)) % Len(s)) + 1]]

\* thread_rng().shuffle: any order of the same cards
Shuffle(s) == {[i \in 1..Len(s) |-> s[p[i]]] : p \in Permutations(1..Len(s))}

full_deck(seed) == SeededShuffle(SortedDeck, seed)

\* ------------------------------------------------------------- events
NoEvents == <<>>
DiscardShuffle == [type |-> "DiscardShuffle", player |-> None, cards |-> <<>>]
Discards(cs) == [type |-> "Discards", player |-> None, cards |-> cs]
Kabo(p) == [type |-> "Kabo", player |-> Some(p), cards |-> <<>>]
EndTurn(p) == [type |-> "EndTurn", player |-> Some(p), cards |-> <<>>]
GameOver == [type |-> "GameOver", player |-> None, cards |-> <<>>]

\* return values: Ok(events), Ok(card) of PreGame::peek, Err(error), or a panic
Ok(op, events) ==
    [op |-> op, kind |-> "Ok", err |-> "", arg |-> None, events |-> events]
OkCard(op, card) ==
    [op |-> op, kind |-> "Ok", err |-> "", arg |-> Some(card), events |-> <<>>]
Err(op, error) ==
    [op |-> op, kind |-> "Err", err |-> error, arg |-> None, events |-> <<>>]
ErrAlreadyKabo(op, p) ==
    [op |-> op, kind |-> "Err", err |-> "AlreadyKabo", arg |-> Some(p),
     events |-> <<>>]
Panic(op, what) ==
    [op |-> op, kind |-> "Panic", err |-> what, arg |-> None, events |-> <<>>]

\* ------------------------------------------------------------- PreGame::new
\* the loop of PreGame::new: each name drains the last cards_per_player cards
RECURSIVE Deal(_, _, _)
Deal(d, n, cards_per_player) ==
    IF n = 0 THEN [deck |-> d, players |-> <<>>]
    ELSE LET drain_index == Len(d) - cards_per_player
             hand == SubSeq(d, drain_index + 1, Len(d))
             rest == Deal(SubSeq(d, 1, drain_index), n - 1, cards_per_player)
         IN  [deck |-> rest.deck, players |-> <<hand>> \o rest.players]

\* the deals explored: names.len() * cards_per_player <= DECK_SIZE - 1
Deals ==
    {c \in (1..MaxPlayers) \X (0..(DECK_SIZE - 1)) :
        /\ c[1] * c[2] <= DECK_SIZE - 1
        /\ DECK_SIZE - 1 - c[1] * c[2] <= MaxDeck}

PreGameNew(n, cards_per_player, seed) ==
    LET shuffled == full_deck(seed)
        first_card == Last(shuffled)
        dealt == Deal(Front(shuffled), n, cards_per_player)
    IN  /\ deck = dealt.deck
        /\ discard_pile = <<first_card>>
        /\ players = dealt.players
        /\ peeks_left = Repeat(2, n)
        /\ total_peeks_left = (n * 2) % 256

Init ==
    /\ \E c \in Deals, seed \in 0..MaxSeed : PreGameNew(c[1], c[2], seed)
    /\ stage = "PreGame"
    /\ current_player = 0
    /\ kabo = None
    /\ hand_card = None
    /\ result = Ok("new", NoEvents)
    /\ args = <<>>
    /\ log = <<>>
    /\ steps = 0

NumPlayers == Len(players)
\* the player indices a caller passes: every player, and one out of range
PlayerIndices == 0..NumPlayers
\* the card indices a caller passes: the first slot, and one past the last
CardIndices(p) == {0, Len(players[p + 1])}

\* ------------------------------------------------------------- PreGame::peek
\* PreGame::peek that reveals the card without using up a peek
PreGamePeekKeepsAllowance ==
    /\ stage = "PreGame"
    /\ \E player_index \in PlayerIndices :
        IF player_index >= NumPlayers
        THEN /\ stage' = "Aborted"
             /\ result' = Panic("pregame_peek", "Invalid player index.")
             /\ args' = <<player_index>>
             /\ UNCHANGED <<preGameState, current_player, kabo, hand_card,
                            log, steps>>
        ELSE \E card_index \in CardIndices(player_index) :
             args' = <<player_index, card_index>> /\
             LET hand == players[player_index + 1] IN
             IF peeks_left[player_index + 1] > 0
             THEN /\ result' = IF card_index < Len(hand)
                               THEN OkCard("pregame_peek", hand[card_index + 1])
                               ELSE Err("pregame_peek", "InvalidIndex")
                  /\ UNCHANGED <<stage, preGameState, current_player, kabo,
                                 hand_card, log, steps>>
             ELSE /\ result' = Err("pregame_peek", "NoPeeksLeft")
                  /\ UNCHANGED <<stage, preGameState, current_player, kabo,
                                 hand_card, log, steps>>

PreGamePeek ==
    /\ stage = "PreGame"
    /\ \E player_index \in PlayerIndices :
        IF player_index >= NumPlayers
        THEN \* .expect("Invalid player index.")
             /\ stage' = "Aborted"
             /\ result' = Panic("pregame_peek", "Invalid player index.")
             /\ args' = <<player_index>>
             /\ UNCHANGED <<preGameState, current_player, kabo, hand_card,
                            log, steps>>
        ELSE \E card_index \in CardIndices(player_index) :
             args' = <<player_index, card_index>> /\
             LET hand == players[player_index + 1] IN
             IF peeks_left[player_index + 1] > 0
             THEN /\ peeks_left' = [peeks_left EXCEPT ![player_index + 1] = @ - 1]
                  /\ total_peeks_left' = total_peeks_left - 1
                  /\ result' = IF card_index < Len(hand)
                               THEN OkCard("pregame_peek", hand[card_index + 1])
                               ELSE Err("pregame_peek", "InvalidIndex")
                  /\ UNCHANGED <<stage, cards, current_player, kabo, hand_card,
                                 log, steps>>
             ELSE /\ result' = Err("pregame_peek", "NoPeeksLeft")
                  /\ UNCHANGED <<stage, preGameState, current_player, kabo,
                                 hand_card, log, steps>>

\* ------------------------------------------------------------- PreGame::to_game
total_card_amout == Len(deck) + Len(discard_pile) + SumLen(players)

\* to_game without the peek assertions
ToGameSkipsPeekAsserts ==
    /\ stage = "PreGame"
    /\ IF total_card_amout = DECK_SIZE
       THEN /\ stage' = "Game"
            /\ current_player' = 0
            /\ kabo' = None
            /\ hand_card' = None
            /\ result' = Ok("to_game", NoEvents)
       ELSE /\ stage' = "Aborted"
            /\ result' = Panic("to_game", "assertion failed")
            /\ UNCHANGED <<current_player, kabo, hand_card>>
    /\ args' = <<>>
    /\ UNCHANGED <<preGameState, log, steps>>

ToGame ==
    /\ stage = "PreGame"
    /\ IF /\ total_card_amout = DECK_SIZE
          /\ total_peeks_left = 0
          /\ \A p \in 1..NumPlayers : peeks_left[p] = 0
       THEN /\ stage' = "Game"
            /\ current_player' = 0
            /\ kabo' = None
            /\ hand_card' = None
            /\ result' = Ok("to_game", NoEvents)
       ELSE /\ stage' = "Aborted"
            /\ result' = Panic("to_game", "assertion failed")
            /\ UNCHANGED <<current_player, kabo, hand_card>>
    /\ args' = <<>>
    /\ UNCHANGED <<preGameState, log, steps>>

\* ------------------------------------------------------------- Game
\* Game operations are explored while fewer than MaxSteps have succeeded.
Running == stage = "Game" /\ steps < MaxSteps

\* return Err(error): ensure! and the early returns
Fail(error) ==
    /\ result' = error
    /\ UNCHANGED <<stage, gameState, peeks_left, total_peeks_left, log, steps>>

\* a panic (assert!, unwrap, index out of bounds, unimplemented!) aborts
Abort(op, what) ==
    /\ stage' = "Aborted"
    /\ result' = Panic(op, what)
    /\ UNCHANGED <<gameState, peeks_left, total_peeks_left, log, steps>>

\* return Ok(events)
Return(op, events) ==
    /\ result' = Ok(op, events)
    /\ log' = log \o events
    /\ steps' = steps + 1
    /\ UNCHANGED <<stage, peeks_left, total_peeks_left>>

\* end_turn without the Kabo test: the round never ends
end_turn_event_ignores_kabo(cur, kabo_now) == EndTurn(cur)

\* end_turn without the wrap to player 0
end_turn_player_no_wrap(cur) == cur + 1

\* Game::end_turn: the new cursor, and the event it returns
end_turn_player(cur) == IF cur + 1 = NumPlayers THEN 0 ELSE cur + 1

end_turn_event(cur, kabo_now) ==
    IF kabo_now # None /\ kabo_now[1] = cur THEN GameOver ELSE EndTurn(cur)

\* discard_and_end without the push: the resolved card is dropped
discard_and_end_drops_card(op, card) ==
    /\ discard_pile' = discard_pile
    /\ hand_card' = None
    /\ current_player' = end_turn_player(current_player)
    /\ Return(op, <<Discards(<<card>>),
                    end_turn_event(end_turn_player(current_player), kabo)>>)

\* discard_and_end that puts the card under the discard pile
discard_and_end_at_bottom(op, card) ==
    /\ discard_pile' = <<card>> \o discard_pile
    /\ hand_card' = None
    /\ current_player' = end_turn_player(current_player)
    /\ Return(op, <<Discards(<<card>>),
                    end_turn_event(end_turn_player(current_player), kabo)>>)

\* Game::discard_and_end with `card` held; kabo is left alone
discard_and_end(op, card) ==
    /\ discard_pile' = Append(discard_pile, card)
    /\ hand_card' = None
    /\ current_player' = end_turn_player(current_player)
    /\ Return(op, <<Discards(<<card>>),
                    end_turn_event(end_turn_player(current_player), kabo)>>)

\* deck_draw that copies the discard pile into the deck instead of swapping
DeckDrawKeepsPile ==
    /\ Running
    /\ args' = <<>>
    /\ IF hand_card # None THEN Fail(Err("deck_draw", "WrongPhase"))
       ELSE IF deck # <<>>
       THEN /\ hand_card' = Some(Last(deck))
            /\ deck' = Front(deck)
            /\ Return("deck_draw", NoEvents)
            /\ UNCHANGED <<discard_pile, players, current_player, kabo>>
       ELSE IF ~(Len(discard_pile) >= 4)
       THEN Abort("deck_draw", "assertion failed: discard_pile.len() >= 4")
       ELSE \E shuffled \in Shuffle(discard_pile) :
            /\ deck' = Front(shuffled)
            /\ hand_card' = Some(Last(shuffled))
            /\ Return("deck_draw", <<DiscardShuffle>>)
            /\ UNCHANGED <<discard_pile, players, current_player, kabo>>

\* deck_draw that takes the first card of the Vec instead of popping the last
DeckDrawFromBottom ==
    /\ Running
    /\ args' = <<>>
    /\ IF hand_card # None THEN Fail(Err("deck_draw", "WrongPhase"))
       ELSE IF deck # <<>>
       THEN /\ hand_card' = Some(Head(deck))
            /\ deck' = Tail(deck)
            /\ Return("deck_draw", NoEvents)
            /\ UNCHANGED <<discard_pile, players, current_player, kabo>>
       ELSE IF ~(Len(discard_pile) >= 4)
       THEN Abort("deck_draw", "assertion failed: discard_pile.len() >= 4")
       ELSE \E shuffled \in Shuffle(discard_pile) :
            /\ discard_pile' = deck
            /\ deck' = Front(shuffled)
            /\ hand_card' = Some(Last(shuffled))
            /\ Return("deck_draw", <<DiscardShuffle>>)
            /\ UNCHANGED <<players, current_player, kabo>>

DeckDraw ==
    /\ Running
    /\ args' = <<>>
    /\ IF hand_card # None THEN Fail(Err("deck_draw", "WrongPhase"))
       ELSE IF deck # <<>>
       THEN /\ hand_card' = Some(Last(deck))
            /\ deck' = Front(deck)
            /\ Return("deck_draw", NoEvents)
            /\ UNCHANGED <<discard_pile, players, current_player, kabo>>
       ELSE IF ~(Len(discard_pile) >= 4)
       THEN Abort("deck_draw", "assertion failed: discard_pile.len() >= 4")
       ELSE \E shuffled \in Shuffle(discard_pile) :
            /\ discard_pile' = deck
            /\ deck' = Front(shuffled)
            /\ hand_card' = Some(Last(shuffled))
            /\ Return("deck_draw", <<DiscardShuffle>>)
            /\ UNCHANGED <<players, current_player, kabo>>

\* discard_draw that copies the top card and leaves it on the pile
DiscardDrawKeepsTop ==
    /\ Running
    /\ args' = <<>>
    /\ IF hand_card # None
       THEN Fail(Err("discard_draw", "WrongPhase"))
       ELSE IF discard_pile = <<>>
       THEN Abort("discard_draw", "unwrap on None")
       ELSE /\ hand_card' = Some(Last(discard_pile))
            /\ Return("discard_draw", NoEvents)
            /\ UNCHANGED <<deck, discard_pile, players, current_player, kabo>>

DiscardDraw ==
    /\ Running
    /\ args' = <<>>
    /\ IF hand_card # None
       THEN Fail(Err("discard_draw", "WrongPhase"))
       ELSE IF discard_pile = <<>>
       THEN Abort("discard_draw", "unwrap on None")
       ELSE /\ hand_card' = Some(Last(discard_pile))
            /\ discard_pile' = Front(discard_pile)
            /\ Return("discard_draw", NoEvents)
            /\ UNCHANGED <<deck, players, current_player, kabo>>

\* announce_kabo that records the caller before the AlreadyKabo test
AnnounceKaboRecordsFirst ==
    /\ Running
    /\ args' = <<>>
    /\ IF hand_card # None
       THEN Fail(Err("announce_kabo", "WrongPhase"))
       ELSE IF kabo # None
       THEN /\ kabo' = Some(current_player)
            /\ result' = ErrAlreadyKabo("announce_kabo", kabo[1])
            /\ UNCHANGED <<stage, deck, discard_pile, players, current_player,
                           hand_card, peeks_left, total_peeks_left, log, steps>>
       ELSE /\ kabo' = Some(current_player)
            /\ current_player' = end_turn_player(current_player)
            /\ Return("announce_kabo",
                      <<Kabo(current_player),
                        end_turn_event(end_turn_player(current_player),
                                       Some(current_player))>>)
            /\ UNCHANGED <<deck, discard_pile, players, hand_card>>

\* announce_kabo without the AlreadyKabo test
AnnounceKaboTwice ==
    /\ Running
    /\ args' = <<>>
    /\ IF hand_card # None
       THEN Fail(Err("announce_kabo", "WrongPhase"))
       ELSE /\ kabo' = Some(current_player)
            /\ current_player' = end_turn_player(current_player)
            /\ Return("announce_kabo",
                      <<Kabo(current_player),
                        end_turn_event(end_turn_player(current_player),
                                       Some(current_player))>>)
            /\ UNCHANGED <<deck, discard_pile, players, hand_card>>

AnnounceKabo ==
    /\ Running
    /\ args' = <<>>
    /\ IF hand_card # None
       THEN Fail(Err("announce_kabo", "WrongPhase"))
       ELSE IF kabo # None
       THEN Fail(ErrAlreadyKabo("announce_kabo", kabo[1]))
       ELSE /\ kabo' = Some(current_player)
            /\ current_player' = end_turn_player(current_player)
            /\ Return("announce_kabo",
                      <<Kabo(current_player),
                        end_turn_event(end_turn_player(current_player),
                                       Some(current_player))>>)
            /\ UNCHANGED <<deck, discard_pile, players, hand_card>>

Discard ==
    /\ Running
    /\ args' = <<>>
    /\ IF ~(hand_card # None) THEN Fail(Err("discard", "WrongPhase"))
       ELSE /\ discard_and_end("discard", hand_card[1])
            /\ UNCHANGED <<deck, players, kabo>>

\* replace that discards the face-down card without putting the held card
\* in its slot
ReplaceWithoutSwap ==
    /\ Running
    /\ IF ~(hand_card # None) THEN args' = <<>> /\ Fail(Err("replace", "WrongPhase"))
       ELSE \E player_index \in PlayerIndices :
        IF player_index >= NumPlayers
        THEN args' = <<player_index>> /\ Abort("replace", "index out of bounds")
        ELSE \E card_index \in CardIndices(player_index) :
             args' = <<player_index, card_index>> /\
             LET hand == players[player_index + 1] IN
             IF card_index < Len(hand)
             THEN /\ discard_and_end("replace", hand[card_index + 1])
                  /\ UNCHANGED <<deck, players, kabo>>
             ELSE Fail(Err("replace", "InvalidIndex"))

\* replace that discards the held card and leaves the slot as it was
ReplaceDiscardsHeld ==
    /\ Running
    /\ IF ~(hand_card # None) THEN args' = <<>> /\ Fail(Err("replace", "WrongPhase"))
       ELSE \E player_index \in PlayerIndices :
        IF player_index >= NumPlayers
        THEN args' = <<player_index>> /\ Abort("replace", "index out of bounds")
        ELSE \E card_index \in CardIndices(player_index) :
             args' = <<player_index, card_index>> /\
             LET hand == players[player_index + 1] IN
             IF card_index < Len(hand)
             THEN /\ discard_and_end("replace", hand_card[1])
                  /\ UNCHANGED <<deck, players, kabo>>
             ELSE Fail(Err("replace", "InvalidIndex"))

\* replace that pushes the held card onto the hand instead of assigning the
\* slot
ReplacePushesOntoHand ==
    /\ Running
    /\ IF ~(hand_card # None) THEN args' = <<>> /\ Fail(Err("replace", "WrongPhase"))
       ELSE \E player_index \in PlayerIndices :
        IF player_index >= NumPlayers
        THEN args' = <<player_index>> /\ Abort("replace", "index out of bounds")
        ELSE \E card_index \in CardIndices(player_index) :
             args' = <<player_index, card_index>> /\
             LET hand == players[player_index + 1] IN
             IF card_index < Len(hand)
             THEN /\ players' = [players EXCEPT
                                   ![player_index + 1] = Append(@, hand_card[1])]
                  /\ discard_and_end("replace", hand[card_index + 1])
                  /\ UNCHANGED <<deck, kabo>>
             ELSE Fail(Err("replace", "InvalidIndex"))

Replace ==
    /\ Running
    /\ IF ~(hand_card # None) THEN args' = <<>> /\ Fail(Err("replace", "WrongPhase"))
       ELSE \E player_index \in PlayerIndices :
        IF player_index >= NumPlayers
        THEN args' = <<player_index>> /\ Abort("replace", "index out of bounds")
        ELSE \E card_index \in CardIndices(player_index) :
             args' = <<player_index, card_index>> /\
             LET hand == players[player_index + 1] IN
             IF card_index < Len(hand)
             THEN \* swap(hand_card, face_down_card), then discard_and_end
                  /\ players' = [players EXCEPT
                                   ![player_index + 1][card_index + 1] = hand_card[1]]
                  /\ discard_and_end("replace", hand[card_index + 1])
                  /\ UNCHANGED <<deck, kabo>>
             ELSE Fail(Err("replace", "InvalidIndex"))

\* the card_indices a caller passes: only their number is read
CardIndexLists == {<<>>, <<0>>, <<0, 1>>}

\* player_index is not read before unimplemented!()
MultiReplace ==
    /\ Running
    /\ \E card_indices \in CardIndexLists :
        args' = <<Len(card_indices)>> /\
        IF ~(Len(card_indices) >= 2)
        THEN Fail(Err("multi_replace", "InvalidIndex"))
        ELSE IF ~(hand_card # None)
        THEN Fail(Err("multi_replace", "WrongPhase"))
        ELSE Abort("multi_replace", "not implemented")

\* player_index and card_index are not read before unimplemented!()
\* Game::peek without the test of the held card's rank
GamePeekAnyRank ==
    /\ Running
    /\ args' = <<>>
    /\ IF ~(hand_card # None) THEN Fail(Err("peek", "WrongPhase"))
       ELSE Abort("peek", "not implemented")

GamePeek ==
    /\ Running
    /\ args' = <<>>
    /\ IF ~(hand_card # None) THEN Fail(Err("peek", "WrongPhase"))
       ELSE IF ~(hand_card[1] = 7 \/ hand_card[1] = 8)
       THEN Fail(Err("peek", "WrongCard"))
       ELSE Abort("peek", "not implemented")

Next ==
    \/ PreGamePeek
    \/ ToGame
    \/ DeckDraw
    \/ DiscardDraw
    \/ AnnounceKabo
    \/ Discard
    \/ Replace
    \/ MultiReplace
    \/ GamePeek

Spec == Init /\ [][Next]_vars

\* ================================================================ claims
InGame == stage = "Game"
AwaitingDraw == hand_card = None
HoldingCard == hand_card # None

RECURSIVE Flatten(_)
Flatten(ss) == IF ss = <<>> THEN <<>> ELSE Flatten(Front(ss)) \o Last(ss)

\* how often each rank occurs in the sequence s of cards
RECURSIVE TallyFrom(_, _, _)
TallyFrom(s, i, t) ==
    IF i > Len(s) THEN t ELSE TallyFrom(s, i + 1, [t EXCEPT ![s[i]] = @ + 1])
Tally(s) == TallyFrom(s, 1, [r \in Ranks |-> 0])

\* every card of the game, the held one included
AllCards == deck \o discard_pile \o Flatten(players) \o hand_card

\* how often each rank occurs in a full deck
Multiplicity(r) == IF r = 0 \/ r = 13 THEN 2 ELSE 4

SameCards(s, t) == Tally(s) = Tally(t)

IsEndTurnEvent(e) == e.type = "EndTurn" \/ e.type = "GameOver"
IsGameOver(e) == e.type = "GameOver"
IsKabo(e) == e.type = "Kabo"
KaboAnnounced == \E i \in 1..Len(log) : IsKabo(log[i])
\* where the log holds the first Kabo event
KaboIndex == CHOOSE i \in 1..Len(log) :
                 IsKabo(log[i]) /\ \A j \in 1..(i - 1) : ~IsKabo(log[j])
\* the end-turn events returned since Kabo was announced, the announcing
\* call's own included
EndsSinceKabo == SelectSeq(SubSeq(log, KaboIndex, Len(log)), IsEndTurnEvent)

\* C1 (as stated): in every Game state, a card held or not,
\* |deck| + |discard_pile| + the sum of the hand sizes is 52.
C1_CardCountAlways52 == InGame => total_card_amout = 52

\* C1 (amended): in every Game state |deck| + |discard_pile| + the sum of the
\* hand sizes is 52 when no card is held and 51 when a card is held (the held
\* card is in hand_card, outside the three containers).
C1_CardCount ==
    InGame => total_card_amout = IF HoldingCard THEN 51 ELSE 52

\* C1 witness: a game in which a card is held after earlier turns were resolved
C1_Witness == InGame /\ HoldingCard /\ steps >= 4 /\ total_card_amout = 51

\* C2: in every state the cards of deck, discard_pile, all hands and the held
\* card together are the full 52-card multiset: rank 0 twice, ranks 1..12 four
\* times each, rank 13 twice, and nothing else.
C2_NoCardCreatedOrDropped ==
    LET all == AllCards
    IN  /\ Len(all) = 52
        /\ \A i \in 1..Len(all) : all[i] \in Ranks
        /\ Tally(all) = [r \in Ranks |-> Multiplicity(r)]

\* C2 witness: a card was swapped into a hand by replace in the third turn
\* or later
C2_Witness ==
    /\ InGame /\ AwaitingDraw /\ steps >= 6
    /\ result.op = "replace" /\ result.kind = "Ok"

\* C3 (as stated): deck_draw, discard_draw and announce_kabo return
\* Err(WrongPhase) whenever a card is held; discard, replace, multi_replace and
\* peek return Err(WrongPhase) whenever no card is held, for all arguments.
C3_PhaseGuard ==
    [][InGame =>
        /\ (HoldingCard /\ result'.op \in {"deck_draw", "discard_draw",
                                           "announce_kabo"})
              => result' = Err(result'.op, "WrongPhase")
        /\ (AwaitingDraw /\ result'.op \in {"discard", "replace",
                                            "multi_replace", "peek"})
              => result' = Err(result'.op, "WrongPhase")]_vars

\* C4: a Game operation that returns a GameError leaves deck, discard_pile,
\* every hand, current_player, kabo and hand_card as they were.
C4_GameErrorLeavesState ==
    [][(InGame /\ result'.kind = "Err") => UNCHANGED gameState]_vars

\* C4 witness: replace with an out-of-range card index failed while a card
\* is held
C4_Witness ==
    /\ InGame /\ HoldingCard
    /\ result = Err("replace", "InvalidIndex")

\* C5 (as stated): a PreGame::peek that returns an error leaves the peek
\* allowances, total_peeks_left, the deck, the discard pile and the hands as
\* they were.
C5_PeekErrorLeavesState ==
    [][(stage = "PreGame" /\ result'.op = "pregame_peek" /\ result'.kind = "Err")
         => UNCHANGED preGameState]_vars

\* C6: after announce_kabo by player k in a game of n players, the j-th turn
\* end counted from the announcement returns EndTurn{(k + j) mod n} for j < n
\* and GameOver for j = n, when the cursor is back on k; no GameOver is
\* returned before that.
C6_KaboTermination ==
    (InGame /\ KaboAnnounced) =>
        LET at == KaboIndex
            k == log[at].player[1]
            n == NumPlayers
            ends == EndsSinceKabo
        IN  /\ \A i \in 1..at : ~IsGameOver(log[i])
            /\ IsEndTurnEvent(log[at + 1])
            /\ \A j \in 1..Len(ends) :
                /\ j < n => ends[j] = EndTurn((k + j) % n)
                /\ j = n => ends[j] = GameOver
            /\ Len(ends) <= n => current_player = (k + Len(ends)) % n

\* C6 witness: in a two-player game the other player completed a turn by
\* discard or replace and that call returned the GameOver
C6_Witness ==
    /\ InGame /\ KaboAnnounced /\ NumPlayers = 2
    /\ Len(EndsSinceKabo) = 2
    /\ result.op \in {"discard", "replace"}
    /\ Len(result.events) = 2 /\ result.events[2] = GameOver

\* C7: announce_kabo in AwaitingDraw with no Kabo pending sets kabo to the
\* current player p and returns [Kabo{p}, end-turn event]; kabo, once set,
\* never changes; every later announce_kabo in AwaitingDraw returns
\* Err(AlreadyKabo{p}).
C7_KaboAtMostOnce ==
    [][InGame =>
        /\ (result'.op = "announce_kabo" /\ AwaitingDraw /\ kabo = None)
              => /\ kabo' = Some(current_player)
                 /\ result'.kind = "Ok"
                 /\ Len(result'.events) = 2
                 /\ result'.events[1] = Kabo(current_player)
                 /\ IsEndTurnEvent(result'.events[2])
        /\ kabo # None => kabo' = kabo
        /\ (result'.op = "announce_kabo" /\ AwaitingDraw /\ kabo # None)
              => result' = ErrAlreadyKabo("announce_kabo", kabo[1])]_vars

\* C7 witness: a player other than the Kabo caller announced Kabo and was
\* refused
C7_Witness ==
    /\ InGame /\ kabo # None
    /\ result = ErrAlreadyKabo("announce_kabo", kabo[1])
    /\ current_player # kabo[1]

\* C8 (as stated): once GameOver has been returned, no Game operation
\* succeeds or changes the Game state.
C8_GameOverTerminal ==
    [][(InGame /\ \E i \in 1..Len(log) : IsGameOver(log[i]))
          => (result'.kind # "Ok" /\ UNCHANGED gameState)]_vars

\* C9: deck_draw in AwaitingDraw with an empty deck and at least 4 cards on
\* the discard pile returns exactly [DiscardShuffle], holds a card, empties
\* the discard pile, and the new deck with the held card are the cards of the
\* old discard pile; hands, current_player and kabo are unchanged.
C9_DeckExhaustion ==
    [][(/\ InGame /\ AwaitingDraw
        /\ result'.op = "deck_draw"
        /\ deck = <<>> /\ Len(discard_pile) >= 4)
          => /\ result' = Ok("deck_draw", <<DiscardShuffle>>)
             /\ hand_card' # None
             /\ discard_pile' = <<>>
             /\ Len(deck') + 1 = Len(discard_pile)
             /\ SameCards(deck' \o hand_card', discard_pile)
             /\ UNCHANGED <<players, current_player, kabo>>]_vars

\* C9 witness: the reshuffle has just happened
C9_Witness ==
    /\ InGame /\ HoldingCard
    /\ result = Ok("deck_draw", <<DiscardShuffle>>)
    /\ discard_pile = <<>> /\ Len(deck) >= 3

\* C10 (as stated): for every deal with names.len() * cards_per_player <= 51
\* the assertion discard_pile.len() >= 4 of deck_draw never fails.
C10_ReshuffleAssertionHolds ==
    ~(result.op = "deck_draw" /\ result.kind = "Panic")

\* C11: a successful replace(p, i) while holding X, with slot i of player p
\* holding Y, leaves X in that slot, Y on top of the discard pile and no card
\* held, and returns exactly [Discards{cards: [Y]}, one end-turn event]; the
\* deck, every other slot of every hand and kabo are unchanged.
C11_ReplaceSemantics ==
    [][(InGame /\ HoldingCard /\ result'.op = "replace" /\ result'.kind = "Ok")
         => LET p == args'[1]
                i == args'[2]
                X == hand_card[1]
                Y == players[p + 1][i + 1]
            IN  /\ p \in 0..(NumPlayers - 1)
                /\ i \in 0..(Len(players[p + 1]) - 1)
                /\ players' = [players EXCEPT ![p + 1][i + 1] = X]
                /\ discard_pile' = Append(discard_pile, Y)
                /\ hand_card' = None
                /\ Len(result'.events) = 2
                /\ result'.events[1] = Discards(<<Y>>)
                /\ IsEndTurnEvent(result'.events[2])
                /\ UNCHANGED <<deck, kabo>>]_vars

\* C11 witness: replace(1, 0) put the held card into slot 0 of the second
\* player and discarded a card of another rank from it
C11_Witness ==
    /\ InGame /\ AwaitingDraw /\ NumPlayers = 2
    /\ result.op = "replace" /\ result.kind = "Ok"
    /\ args = <<1, 0>>
    /\ players[2][1] # Last(discard_pile)

\* C12: after PreGame::new every player has exactly 2 peeks; a successful
\* PreGame::peek(p, i) returns the card in slot i of player p's own hand and
\* lowers the allowance of p, and of nobody else, by one; once the allowances
\* are used up (2 peeks per player), every further peek by any player with
\* any card index returns NoPeeksLeft (a player index that names no player
\* panics instead).
C12_PeekAllowance ==
    /\ [](result.op = "new" => \A p \in 1..NumPlayers : peeks_left[p] = 2)
    /\ [][(stage = "PreGame" /\ result'.op = "pregame_peek")
            => /\ result'.kind = "Ok" =>
                    LET p == args'[1]
                        i == args'[2]
                    IN  /\ p \in 0..(NumPlayers - 1)
                        /\ i \in 0..(Len(players[p + 1]) - 1)
                        /\ result'.arg = Some(players[p + 1][i + 1])
                        /\ peeks_left[p + 1] > 0
                        /\ peeks_left' = [peeks_left EXCEPT ![p + 1] = @ - 1]
               /\ (/\ \A p \in 1..NumPlayers : peeks_left[p] = 0
                   /\ result'.kind # "Panic")
                    => result' = Err("pregame_peek", "NoPeeksLeft")]_vars

\* C12 witness: both players of a two-player PreGame have used their two
\* peeks and a further peek was refused
C12_Witness ==
    /\ stage = "PreGame" /\ NumPlayers = 2
    /\ \A p \in 1..NumPlayers : peeks_left[p] = 0
    /\ result = Err("pregame_peek", "NoPeeksLeft")

\* C13: to_game on a PreGame reached from PreGame::new by peek calls panics
\* if and only if some player still has a peek allowance above zero (the
\* cards always count 52, so the card-count assertion never fails); when it
\* succeeds the Game has current_player = 0, kabo = None, hand_card = None and
\* the deck, discard pile and hands of the PreGame, in the same order.
C13_ToGameHandOff ==
    [][(stage = "PreGame" /\ result'.op = "to_game")
         => /\ total_card_amout = 52
            /\ result'.kind \in {"Ok", "Panic"}
            /\ result'.kind = "Panic"
                 <=> \E p \in 1..NumPlayers : peeks_left[p] > 0
            /\ result'.kind = "Ok"
                 => /\ stage' = "Game"
                    /\ current_player' = 0
                    /\ kabo' = None
                    /\ hand_card' = None
                    /\ UNCHANGED <<deck, discard_pile, players>>]_vars

\* C13 witness: to_game was called while a player of a two-player PreGame
\* had a peek left, and panicked
C13_Witness ==
    /\ stage = "Aborted" /\ NumPlayers = 2
    /\ result.op = "to_game" /\ result.kind = "Panic"
    /\ peeks_left[1] = 0 /\ peeks_left[2] > 0

\* C14: Game::peek while a card of a rank other than 7 and 8 is held returns
\* Err(WrongCard); the card stays held and the turn is not ended.
C14_PeekRankGuard ==
    [][(/\ InGame /\ HoldingCard
        /\ hand_card[1] # 7 /\ hand_card[1] # 8
        /\ result'.op = "peek")
          => /\ result' = Err("peek", "WrongCard")
             /\ hand_card' = hand_card
             /\ current_player' = current_player
             /\ stage' = "Game"
             /\ log' = log]_vars

\* C14 witness: peek was refused with WrongCard while a card is held
C14_Witness ==
    /\ InGame /\ HoldingCard
    /\ hand_card[1] # 7 /\ hand_card[1] # 8
    /\ result = Err("peek", "WrongCard")

\* C15: every successful announce_kabo, discard and replace in a game of
\* n >= 1 players moves current_player from c to (c + 1) mod n, so that
\* current_player always names a player, and the last event it returns is
\* GameOver when a Kabo is pending and the new current_player is the Kabo
\* caller, and EndTurn{next_player: new current_player} otherwise.
C15_TurnAdvance ==
    /\ [](InGame => current_player \in 0..(NumPlayers - 1))
    /\ [][(/\ InGame /\ result'.kind = "Ok"
           /\ result'.op \in {"announce_kabo", "discard", "replace"})
            => /\ current_player' = (current_player + 1) % NumPlayers
               /\ result'.events # <<>>
               /\ Last(result'.events) =
                    IF kabo' # None /\ kabo'[1] = current_player'
                    THEN GameOver
                    ELSE EndTurn(current_player')]_vars

\* C15 witness: in a two-player game the turn went from player 1 back to
\* player 0 with an EndTurn event
C15_Witness ==
    /\ InGame /\ NumPlayers = 2 /\ current_player = 0
    /\ result.kind = "Ok" /\ result.op \in {"discard", "replace"}
    /\ Last(result.events) = EndTurn(0)

\* C16: discard() while holding X puts X on top of the discard pile, clears
\* hand_card, ends the turn and returns exactly [Discards{cards: [X]},
\* end-turn event]; the deck, all hands and kabo are unchanged.
C16_Discard ==
    [][(InGame /\ HoldingCard /\ result'.op = "discard")
         => /\ discard_pile' = Append(discard_pile, hand_card[1])
            /\ hand_card' = None
            /\ current_player' = (current_player + 1) % NumPlayers
            /\ result'.kind = "Ok"
            /\ Len(result'.events) = 2
            /\ result'.events[1] = Discards(<<hand_card[1]>>)
            /\ IsEndTurnEvent(result'.events[2])
            /\ UNCHANGED <<deck, players, kabo>>]_vars

\* C16 witness: the held card was discarded onto a pile that already held
\* other cards
C16_Witness ==
    /\ InGame /\ AwaitingDraw
    /\ result.kind = "Ok" /\ result.op = "discard"
    /\ Len(discard_pile) >= 2
    /\ result.events[1] = Discards(<<Last(discard_pile)>>)
    /\ discard_pile[1] # Last(discard_pile)

\* C17: deck_draw in AwaitingDraw with a non-empty deck moves exactly the last
\* (top) card of the deck into hand_card and returns an empty event list; the
\* discard pile, all hands, current_player and kabo are unchanged.
C17_DeckDraw ==
    [][(InGame /\ AwaitingDraw /\ deck # <<>> /\ result'.op = "deck_draw")
         => /\ result' = Ok("deck_draw", <<>>)
            /\ hand_card' = Some(deck[Len(deck)])
            /\ deck' = SubSeq(deck, 1, Len(deck) - 1)
            /\ log' = log
            /\ UNCHANGED <<discard_pile, players, current_player, kabo>>]_vars

\* C17 witness: a card was drawn from a deck that held more than one card
C17_Witness ==
    /\ InGame /\ HoldingCard
    /\ result = Ok("deck_draw", <<>>)
    /\ deck # <<>> /\ hand_card[1] # deck[1]

\* C18: discard_draw in AwaitingDraw moves exactly the top card of the discard
\* pile into hand_card and returns an empty event list; the deck is not
\* touched, also when it is empty; hands, current_player and kabo are
\* unchanged.
C18_DiscardDraw ==
    [][(InGame /\ AwaitingDraw /\ result'.op = "discard_draw")
         => /\ discard_pile # <<>>
            /\ result' = Ok("discard_draw", <<>>)
            /\ hand_card' = Some(discard_pile[Len(discard_pile)])
            /\ discard_pile' = SubSeq(discard_pile, 1, Len(discard_pile) - 1)
            /\ log' = log
            /\ UNCHANGED <<deck, players, current_player, kabo>>]_vars

\* C18 witness: a card was drawn from the discard pile while the deck is
\* empty and the pile held the 4 cards a reshuffle needs
C18_Witness ==
    /\ InGame /\ HoldingCard
    /\ result = Ok("discard_draw", <<>>)
    /\ deck = <<>> /\ Len(discard_pile) = 3

C20_HandSizeFixed ==
    /\ [](result.op = "new" =>
            \E c \in 0..51 :
                /\ \A p \in 1..NumPlayers : Len(players[p]) = c
                /\ Len(discard_pile) = 1
                /\ Len(deck) = 51 - NumPlayers * c)
    /\ [][/\ Len(players') = Len(players)
          /\ \A p \in 1..Len(players) : Len(players'[p]) = Len(players[p])]_vars

\* C20 witness: a two-player game dealt 24 cards each, after a replace
C20_Witness ==
    /\ InGame /\ NumPlayers = 2
    /\ result.op = "replace" /\ result.kind = "Ok"
    /\ Len(players[1]) = 24 /\ Len(players[2]) = 24
====
